---- MODULE Spec2Model ----
(***************************************************************************)
(* The two Myo acquisition programs of the repository as one state         *)
(* machine:                                                                *)
(*   prog = "addr"    src/src/MyoSensor/MyoLinux/src/main.cpp              *)
(*                    (takes a MAC address, has reconnect())               *)
(*   prog = "noaddr"  src/src/MyoSensor/main.cpp                           *)
(*                    (no address, connect retry loop inside main)         *)
(*   prog = "wd"      the ConnectionWatchdog class on its own              *)
(*                                                                         *)
(* Spec runs the two programs from the top of the Supervisor loop, SpecFair *)
(* the same with every step that can be taken eventually taken, SpecWD the *)
(* watchdog class, SpecMac the parsing of the address argument.            *)
(*                                                                         *)
(* The Device Session (myo::Client) is outside the repository: each of its *)
(* calls is a step whose outcome (returns, returns without a connection,   *)
(* throws) and duration are chosen nondeterministically.                   *)
(*                                                                         *)
(* Time.  The code reads its clocks only through differences               *)
(* (now - last_activity, current_time - last_write_time) and through the   *)
(* wall-clock second of the file name, so the model keeps the ages         *)
(* themselves, in milliseconds, each saturated at the first value from     *)
(* which the code can no longer tell it apart from a larger one.           *)
(***************************************************************************)
EXTENDS Integers, Sequences, FiniteSets

VARIABLES
    prog,               \* which program runs
    pc,                 \* position of the single thread of control
    exit_status,        \* "running", "exit0", "exit1", "terminate"
    stop,               \* volatile sig_atomic_t stop
    connected,          \* client.connected()
    reconnect_attempts, \* int reconnect_attempts
    timeout,            \* ConnectionWatchdog::timeout, seconds
    since_activity,     \* steady_clock::now() - watchdog.last_activity, ms
    since_write,        \* steady_clock::now() - last_write_time, ms
    same_second,        \* std::time() still in the second of the last file name
    files,              \* the output directory: files in order of creation
    csv_name,           \* index in files of the file csv_file names (0: none)
    csv_open,           \* number of open std::ofstream handles
    wd_result,          \* the watchdog alone: what is_timeout() has just returned
    emg_data,           \* std::array<int, 8> emg_data: the sample it holds (0: indeterminate)
    imu_data,           \* ori_data, acc_data, gyr_data: the sample they hold (0: indeterminate)
    mac_address_str,    \* argv[2], a sequence of characters
    address,            \* std::array<unsigned char, 6> address
    \* history variables (not program state)
    stop_seen,          \* a loop condition has read stop as set
    connect_calls,      \* connect() calls made in the current cycle
    cycle,              \* "idle", "attempting", "connected", "exhausted", "interrupted"
    stalled,            \* the last listen() outlasted the watchdog threshold and delivered no sample
    err,                \* what() of the exception last thrown
    calls,              \* the Device Session calls made by the last step, in order
    since_row,          \* ms since the clock reading of the last row (of the loop entry before the first)
    delivered,          \* the samples last handed to the EMG and the IMU callback in this episode (0: none)
    row_out,            \* the samples in the row this iteration has written (<<>>: no row)
    lost_exit,          \* the last Acquisition Loop ended on connected() = false and reconnect() was not called since
    configured,         \* setSleepMode and setMode were applied to the connection the session has now
    registered,         \* the episode whose locals the EMG and the IMU callback refer to (0: none)
    since_listen        \* in an iteration: ms since listen() returned and update() was called

vars == <<prog, pc, exit_status, stop, connected, reconnect_attempts, timeout,
          since_activity, since_write, same_second, files, csv_name, csv_open,
          wd_result, stop_seen, connect_calls, cycle,
          stalled, err, emg_data, imu_data, mac_address_str, address, calls, since_row,
          delivered, row_out, lost_exit, configured, registered,
          since_listen>>

----------------------------------------------------------------------------
(* Program constants *)

MAX_RECONNECT_ATTEMPTS == 5
WATCHDOG_TIMEOUT_S == 60
CONNECTION_TIMEOUT_S == 30
WRITE_INTERVAL_MS == 10
LOOP_SLEEP_MS == 1
CONNECT_RETRY_S == 5
ERROR_DELAY_ADDR_S == 30
ERROR_DELAY_NOADDR_S == 5
PRE_CONNECT_SLEEP_MS == 1000
RECONNECT_DELAY_ADDR_MS == 10000
RECONNECT_DELAY_NOADDR_MS == 5000

(* Bounds of the model *)

MaxEpisodes == 2        \* sinks opened in one run
MaxLines == 3           \* lines held by one file
MaxTimeout == 2         \* watchdog thresholds tried on the class alone, s
MaxSample == 2          \* distinct samples a callback is handed

----------------------------------------------------------------------------
(* Time *)

Min(a, b) == IF a < b THEN a ELSE b

\* duration_cast<seconds>(d): truncation of a non-negative duration.
duration_cast_seconds(ms) == ms \div 1000

\* The age from which is_timeout() answers true whatever more is added.
ActivityCap(t) == (t + 1) * 1000

\* A wait longer than the watchdog threshold of the programs.
LongWait == ActivityCap(WATCHDOG_TIMEOUT_S)

Age(x, d, cap) == Min(x + d, cap)

\* The wall-clock second after d ms: a wait of a second or more leaves it,
\* a shorter one may.
SecondAfter(d) == IF d >= 1000 THEN {FALSE} ELSE {same_second, FALSE}

\* d ms pass outside the Acquisition Loop: last_write_time is not in scope.
Pass(d) ==
    /\ since_activity' = Age(since_activity, d, ActivityCap(timeout))
    /\ same_second' \in SecondAfter(d)
    /\ UNCHANGED <<since_write, since_row, stalled>>

\* d ms pass inside the Acquisition Loop.
PassLoop(d) ==
    /\ since_activity' = Age(since_activity, d, ActivityCap(timeout))
    /\ since_write' = Age(since_write, d, WRITE_INTERVAL_MS)
    /\ since_row' = Age(since_row, d, WRITE_INTERVAL_MS)
    /\ same_second' \in SecondAfter(d)

\* The durations tried for the calls whose duration the code does not set.
ListenDur == {0, LongWait}
WriteDur == {0, LongWait}
ConnectDur == {0, CONNECTION_TIMEOUT_S * 1000}

----------------------------------------------------------------------------
(* ConnectionWatchdog *)

\* (update() left out of the loop: the age is what it was)
update_Skipped == since_activity

\* update(): last_activity = now, so the age of last_activity is 0.
update == 0

\* (a comparison that also fires at the threshold itself)
is_timeout_AtThreshold(age, t) == duration_cast_seconds(age) >= t

\* is_timeout(): duration_cast<seconds>(now - last_activity) > timeout.
is_timeout(age, t) == duration_cast_seconds(age) > t

----------------------------------------------------------------------------
(* The CSV file *)

Header ==
    <<"Timestamp", "EMG1", "EMG2", "EMG3", "EMG4", "EMG5", "EMG6", "EMG7",
      "EMG8", "OrientationW", "OrientationX", "OrientationY", "OrientationZ",
      "AccX", "AccY", "AccZ", "GyroX", "GyroY", "GyroZ">>

\* One data row: the timestamp, 8 EMG values, 4 + 3 + 3 IMU values.
Row ==
    <<"timestamp">> \o [j \in 1..8 |-> "emg"] \o [j \in 1..4 |-> "ori"]
        \o [j \in 1..3 |-> "acc"] \o [j \in 1..3 |-> "gyr"]

\* std::ofstream(filename, std::ios::app): the file the name denotes, created
\* empty when the directory has none of that name.  The name is the wall
\* clock's second, so it is the last file's name while same_second holds.
OpenAppend(fs) == IF same_second /\ Len(fs) > 0 THEN fs ELSE Append(fs, <<>>)

AppendLine(fs, n, line) == [fs EXCEPT ![n] = Append(@, line)]

\* (a handle that outlives the block, as a raw FILE* would)
Unwind_Leak(n) == n

\* Open handles left once the try block of main is left by an exception:
\* csv_file is a local of that block and its destructor closes the file.
Unwind(n) == 0

----------------------------------------------------------------------------
(* Exceptions *)

\* The locals of the try block of main are gone (or not yet declared).
NoLocals ==
    /\ emg_data' = 0
    /\ imu_data' = 0
    /\ delivered' = <<0, 0>>
    /\ row_out' = <<>>
    /\ since_write' = 0
    /\ since_row' = 0

\* An exception leaves the try block of main (a Device Session call threw,
\* or the loop threw "Watchdog timeout"): the block's locals are destroyed,
\* then the handler runs.
Throw(what) ==
    /\ csv_open' = Unwind(csv_open)
    /\ csv_name' = 0
    /\ NoLocals
    /\ stalled' = FALSE
    /\ err' = what
    /\ pc' = "handler"

\* The process ends.
Exit(status) ==
    /\ exit_status' = status
    /\ pc' = "done"

NoTime == UNCHANGED <<since_activity, since_write, since_row, same_second>>
NoCycle == UNCHANGED <<reconnect_attempts, connect_calls, cycle>>
NoSink == UNCHANGED <<files, csv_name, csv_open>>
NoFrame == UNCHANGED <<emg_data, imu_data, delivered, row_out>>
NoArgs == UNCHANGED <<mac_address_str, address>>
NoDevice == UNCHANGED <<configured, registered, since_listen>>

----------------------------------------------------------------------------
(* parse_mac_address.  A string is a sequence of one-character strings. *)

MAC_OCTETS == 6

UpperHex == <<"0", "1", "2", "3", "4", "5", "6", "7", "8", "9",
              "A", "B", "C", "D", "E", "F">>
LowerHex == <<"0", "1", "2", "3", "4", "5", "6", "7", "8", "9",
              "a", "b", "c", "d", "e", "f">>

IsHexDigit(c) == \E k \in 1..16 : UpperHex[k] = c \/ LowerHex[k] = c

HexValue(c) == (CHOOSE k \in 1..16 : UpperHex[k] = c \/ LowerHex[k] = c) - 1

\* The largest int: std::stoi throws std::out_of_range beyond it.
INT_MAX == 2147483647

\* The digits strtol takes: the longest prefix of hexadecimal digits.
RECURSIVE HexPrefix(_)
HexPrefix(s) ==
    IF s # <<>> /\ IsHexDigit(Head(s))
    THEN <<Head(s)>> \o HexPrefix(Tail(s))
    ELSE <<>>

\* The value of a sequence of hexadecimal digits, -1 once it exceeds INT_MAX.
RECURSIVE HexNumber(_, _)
HexNumber(s, v) ==
    IF s = <<>> THEN v
    ELSE LET d == HexValue(Head(s))
         IN  IF v > (INT_MAX - d) \div 16 THEN -1
             ELSE HexNumber(Tail(s), 16 * v + d)

RECURSIVE SkipSpace(_)
SkipSpace(s) == IF s # <<>> /\ Head(s) = " " THEN SkipSpace(Tail(s)) ELSE s

\* std::stoi(octet, nullptr, 16), that is strtol: leading white space, an
\* optional sign, an optional 0x, then the longest run of hexadecimal digits;
\* whatever follows is ignored.  No digit: std::invalid_argument.  Beyond
\* int: std::out_of_range.
stoi(octet) ==
    LET a == SkipSpace(octet)
        signed == a # <<>> /\ Head(a) \in {"+", "-"}
        b == IF signed THEN Tail(a) ELSE a
        prefixed == /\ Len(b) >= 3
                    /\ b[1] = "0"
                    /\ b[2] \in {"x", "X"}
                    /\ IsHexDigit(b[3])
        digits == HexPrefix(IF prefixed THEN Tail(Tail(b)) ELSE b)
        v == HexNumber(digits, 0)
    IN  IF digits = <<>> THEN [throws |-> "invalid_argument", value |-> 0]
        ELSE IF v = -1 THEN [throws |-> "out_of_range", value |-> 0]
        ELSE [throws |-> "none",
              value |-> IF signed /\ Head(a) = "-" THEN 0 - v ELSE v]

\* static_cast<unsigned char>(int): the value modulo 256.
to_unsigned_char(v) == v % 256

\* The place of the first ':' of s, Len(s) + 1 when it has none.
RECURSIVE Delimiter(_, _)
Delimiter(s, k) ==
    IF k > Len(s) \/ s[k] = ":" THEN k ELSE Delimiter(s, k + 1)

\* std::getline(ss, octet, ':') on the unread part s of the stream: it fails
\* when nothing is left to read; else the octet is what precedes the first
\* ':' (or the end), and the ':' is consumed.
getline(s) ==
    LET k == Delimiter(s, 1)
    IN  [fail |-> s = <<>>,
         octet |-> SubSeq(s, 1, k - 1),
         rest |-> SubSeq(s, k + 1, Len(s))]

\* for (i = 0; i < 6; ++i) { getline or throw; address[i] = stoi(...) }
\* return address;  What is left of the stream after six octets is not read.
RECURSIVE parse_from(_, _, _)
parse_from(s, i, bytes) ==
    IF i >= MAC_OCTETS
    THEN [throws |-> "none", bytes |-> bytes]
    ELSE LET g == getline(s)
             n == stoi(g.octet)
         IN  IF g.fail
             THEN [throws |-> "Invalid MAC address format", bytes |-> <<>>]
             ELSE IF n.throws # "none"
             THEN [throws |-> n.throws, bytes |-> <<>>]
             ELSE parse_from(g.rest, i + 1,
                             Append(bytes, to_unsigned_char(n.value)))

parse_mac_address(mac) == parse_from(mac, 0, <<>>)

\* The address the programs of Spec were started with.
SomeMac ==
    <<"0", "0", ":", "1", "1", ":", "2", "2", ":", "3", "3", ":", "4", "4",
      ":", "5", "5">>

----------------------------------------------------------------------------
(* Initial states: the arguments are read, the client and the watchdog are
   constructed, control is at the top of the Supervisor loop. *)

Init ==
    /\ prog \in {"addr", "noaddr"}
    /\ pc = "loop"
    /\ exit_status = "running"
    /\ stop = 0
    /\ connected = FALSE
    /\ reconnect_attempts = 0
    /\ timeout = WATCHDOG_TIMEOUT_S
    /\ since_activity = 0
    /\ since_write = 0
    /\ same_second = FALSE
    /\ files = <<>>
    /\ csv_name = 0
    /\ csv_open = 0
    /\ wd_result = "none"
    /\ stop_seen = FALSE
    /\ connect_calls = 0
    /\ cycle = "idle"
    /\ stalled = FALSE
    /\ err = "none"
    /\ emg_data = 0
    /\ imu_data = 0
    /\ mac_address_str = SomeMac
    /\ address = parse_mac_address(SomeMac).bytes
    /\ calls = <<>>
    /\ since_row = 0
    /\ delivered = <<0, 0>>
    /\ row_out = <<>>
    /\ lost_exit = FALSE
    /\ configured = FALSE
    /\ registered = <<0, 0>>
    /\ since_listen = 0

----------------------------------------------------------------------------
(* The interrupt signal *)

signal_handler ==
    /\ exit_status = "running"
    /\ prog # "wd"
    /\ stop = 0
    /\ stop' = 1
    /\ UNCHANGED <<prog, pc, exit_status, connected, timeout, wd_result,
                   stop_seen, err, calls, lost_exit>>
    /\ NoTime /\ UNCHANGED stalled /\ NoCycle /\ NoSink /\ NoFrame /\ NoArgs
    /\ NoDevice

----------------------------------------------------------------------------
(* Supervisor: while (!stop) *)

\* (while (true): the flag is not read)
SupervisorLoop_IgnoresStop ==
    /\ pc = "loop"
    /\ IF FALSE
       THEN /\ pc' = "final"
            /\ stop_seen' = TRUE
            /\ cycle' = "idle"
            /\ UNCHANGED <<reconnect_attempts, connect_calls>>
       ELSE /\ stop_seen' = stop_seen
            /\ IF prog = "addr"
               THEN /\ pc' = "a_connect"
                    /\ cycle' = "idle"
                    /\ UNCHANGED <<reconnect_attempts, connect_calls>>
               ELSE \* int reconnect_attempts = 0;
                    /\ pc' = "b_retry"
                    /\ reconnect_attempts' = 0
                    /\ connect_calls' = 0
                    /\ cycle' = "attempting"
    /\ err' = "none"
    /\ UNCHANGED <<prog, exit_status, stop, connected, timeout, wd_result>>
    /\ NoTime /\ UNCHANGED stalled /\ NoSink
    /\ NoFrame /\ NoArgs /\ calls' = <<>> /\ UNCHANGED lost_exit
    /\ NoDevice

\* while (!stop) of main
SupervisorLoop ==
    /\ pc = "loop"
    /\ IF stop # 0
       THEN /\ pc' = "final"
            /\ stop_seen' = TRUE
            /\ cycle' = "idle"
            /\ UNCHANGED <<reconnect_attempts, connect_calls>>
       ELSE /\ stop_seen' = stop_seen
            /\ IF prog = "addr"
               THEN /\ pc' = "a_connect"
                    /\ cycle' = "idle"
                    /\ UNCHANGED <<reconnect_attempts, connect_calls>>
               ELSE \* int reconnect_attempts = 0;
                    /\ pc' = "b_retry"
                    /\ reconnect_attempts' = 0
                    /\ connect_calls' = 0
                    /\ cycle' = "attempting"
    /\ err' = "none"
    /\ UNCHANGED <<prog, exit_status, stop, connected, timeout, wd_result>>
    /\ NoTime /\ UNCHANGED stalled /\ NoSink
    /\ NoFrame /\ NoArgs /\ calls' = <<>> /\ UNCHANGED lost_exit
    /\ NoDevice

----------------------------------------------------------------------------
(* Address-taking program: the direct connect of the Supervisor *)

\* if (!client.connected()) client.connect(address, connection_timeout);
A_Connect ==
    /\ pc = "a_connect"
    /\ prog = "addr"
    /\ IF connected
       THEN /\ pc' = "check"
            /\ calls' = <<>>
            /\ NoTime /\ UNCHANGED stalled /\ NoFrame
            /\ UNCHANGED <<connected, csv_name, csv_open, err>>
       ELSE \E d \in ConnectDur, r \in {"ok", "fail", "throw"} :
            /\ calls' = <<"connect">>
            /\ since_activity' = Age(since_activity, d, ActivityCap(timeout))
            /\ same_second' \in SecondAfter(d)
            /\ connected' = (r = "ok")
            /\ IF r = "throw"
               THEN Throw("device")
               ELSE /\ pc' = "check"
                    /\ NoFrame
                    /\ UNCHANGED <<csv_name, csv_open, err, since_write,
                                   since_row, stalled>>
    \* the counter of the last reconnect() is long out of scope
    /\ reconnect_attempts' = 0
    /\ connect_calls' = 0
    /\ UNCHANGED <<prog, exit_status, stop, timeout, wd_result, stop_seen, files,
                   cycle, lost_exit>>
    /\ NoArgs
    \* a new connection has the mode the device resets to
    /\ configured' = (connected /\ configured)
    /\ UNCHANGED <<registered, since_listen>>

\* if (!client.connected()) { sleep 5 s; continue; }
A_ConnectFailed ==
    /\ pc = "check"
    /\ prog = "addr"
    /\ ~connected
    /\ Pass(CONNECT_RETRY_S * 1000)
    /\ pc' = "loop"
    /\ UNCHANGED <<prog, exit_status, stop, connected, timeout, wd_result,
                   stop_seen, err>>
    /\ NoCycle /\ NoSink
    /\ NoFrame /\ NoArgs /\ calls' = <<>> /\ UNCHANGED lost_exit
    /\ NoDevice

----------------------------------------------------------------------------
(* The Output Sink *)

\* Sinks opened so far: every open writes one header.
Episodes(fs) ==
    Cardinality(UNION {{<<i, j>> : j \in {k \in 1..Len(fs[i]) : fs[i][k] = Header}}
                       : i \in 1..Len(fs)})

\* The file name from std::time(), std::ofstream csv_file(filename, app),
\* return 1 when it is not open, else the header.
OpenSink ==
    /\ pc = "check"
    /\ connected
    /\ Episodes(files) < MaxEpisodes
    /\ \E opened \in BOOLEAN :
       IF opened
       THEN LET fs == OpenAppend(files)
                n == Len(fs)
            IN  /\ Len(fs[n]) < MaxLines
                /\ files' = AppendLine(fs, n, Header)
                /\ csv_name' = n
                /\ csv_open' = csv_open + 1
                /\ same_second' = TRUE
                /\ pc' = "config"
                /\ UNCHANGED exit_status
       ELSE /\ Exit("exit1")
            /\ UNCHANGED <<files, csv_name, csv_open, same_second>>
    /\ UNCHANGED <<prog, stop, connected, timeout, wd_result, stop_seen, err,
                   since_activity, since_write, since_row, stalled, cycle>>
    \* the attempt counter is not read again in this iteration
    /\ reconnect_attempts' = 0
    /\ connect_calls' = 0
    /\ NoFrame /\ NoArgs /\ calls' = <<>> /\ UNCHANGED lost_exit
    /\ NoDevice

\* (the configuration calls left out)
setMode_Skipped(cfg) == cfg

\* client.setSleepMode(NeverSleep); client.setMode(SendEmg, SendData,
\* Disabled): the connection has the mode the loop needs.
setMode(cfg) == TRUE

\* (callbacks registered once, for the first episode only)
bind_Once(old, episode) == IF old = 0 THEN episode ELSE old

\* client.onEmg([&emg_data]...), client.onImu([&ori_data, ...]...): the
\* callback now refers to the locals of this episode.
bind(old, episode) == episode

\* setSleepMode, setMode, the callbacks, last_write_time = now.
Configure ==
    /\ pc = "config"
    /\ \E r \in {"ok", "throw"} :
       IF r = "ok"
       THEN /\ calls' = <<"setSleepMode", "setMode", "onEmg", "onImu">>
            /\ configured' = setMode(configured)
            /\ registered' = <<bind(registered[1], Episodes(files)),
                               bind(registered[2], Episodes(files))>>
            /\ NoLocals
            /\ stalled' = FALSE
            /\ lost_exit' = FALSE
            /\ pc' = "acq"
            /\ UNCHANGED <<connected, csv_name, csv_open, err>>
       ELSE /\ calls' \in {<<"setSleepMode">>, <<"setSleepMode", "setMode">>}
            /\ Throw("device")
            /\ connected' \in {connected, FALSE}
            /\ UNCHANGED <<lost_exit, configured, registered>>
    /\ UNCHANGED <<prog, exit_status, stop, timeout, wd_result, stop_seen,
                   files, since_activity, same_second>>
    /\ NoCycle /\ NoArgs
    /\ UNCHANGED since_listen

----------------------------------------------------------------------------
(* The Acquisition Loop *)

\* while (client.connected() && !stop)
AcqLoop ==
    /\ pc = "acq"
    /\ pc' = IF connected /\ stop = 0 THEN "listen" ELSE "close"
    /\ stop_seen' = (stop_seen \/ (connected /\ stop # 0))
    /\ lost_exit' = (lost_exit \/ ~connected)
    /\ calls' = <<>>
    /\ UNCHANGED <<prog, exit_status, stop, connected, timeout, wd_result, err>>
    /\ NoTime /\ UNCHANGED stalled /\ NoCycle /\ NoSink /\ NoFrame /\ NoArgs
    /\ NoDevice

\* (a callback that captures the array by value and fills its own copy)
onEmg_ByValue(held, sample) == held

\* client.onEmg([&emg_data](myo::EmgSample sample) { emg_data[i] = sample[i]; })
onEmg(held, sample) == sample

\* client.onImu([&ori_data, &acc_data, &gyr_data](ori, acc, gyr) { ... })
onImu(held, sample) == sample

\* client.listen(); watchdog.update();
Listen ==
    /\ pc = "listen"
    /\ calls' = <<"listen">>
    /\ \E d \in ListenDur, r \in {"data", "nodata", "lost", "throw"},
          e \in 0..MaxSample, i \in 0..MaxSample :
       \* e, i: the sample the last EMG and the last IMU callback of this
       \* call is handed (0: the callback is not called)
       /\ (r = "data") = (e + i > 0)
       /\ same_second' \in SecondAfter(d)
       /\ IF r = "throw"
          THEN /\ Throw("device")
               /\ connected' \in BOOLEAN
               /\ configured' = (configured /\ connected')
               /\ since_activity' = Age(since_activity, d, ActivityCap(timeout))
          ELSE /\ connected' = (r # "lost")
               /\ configured' = (configured /\ r # "lost")
               /\ since_activity' = update
               /\ since_write' = Age(since_write, d, WRITE_INTERVAL_MS)
               /\ since_row' = Age(since_row, d, WRITE_INTERVAL_MS)
               /\ stalled' = (r # "data" /\ d > timeout * 1000)
               \* a callback that refers to the locals of an ended episode
               \* writes through dangling references: anything may follow
               /\ emg_data' \in IF e = 0 THEN {emg_data}
                                 ELSE IF registered[1] = Episodes(files)
                                 THEN {onEmg(emg_data, e)}
                                 ELSE 0..MaxSample
               /\ imu_data' \in IF i = 0 THEN {imu_data}
                                 ELSE IF registered[2] = Episodes(files)
                                 THEN {onImu(imu_data, i)}
                                 ELSE 0..MaxSample
               /\ delivered' = <<IF e > 0 THEN e ELSE delivered[1],
                                 IF i > 0 THEN i ELSE delivered[2]>>
               /\ pc' = "write"
               /\ UNCHANGED <<csv_name, csv_open, err, row_out>>
    /\ UNCHANGED <<prog, exit_status, stop, timeout, wd_result, stop_seen, files>>
    /\ NoCycle /\ NoArgs /\ UNCHANGED lost_exit
    /\ since_listen' = 0
    /\ UNCHANGED registered

\* (a row in every iteration)
write_due_Always(elapsed) == TRUE

\* duration_cast<milliseconds>(current_time - last_write_time).count() >= 10
write_due(elapsed) == elapsed >= WRITE_INTERVAL_MS

\* if (current_time - last_write_time >= 10 ms) { one row; last_write_time =
\* current_time; }  The write itself takes d ms.
WriteRow ==
    /\ pc = "write"
    /\ IF write_due(since_write)
       THEN /\ Len(files[csv_name]) < MaxLines
            /\ files' = AppendLine(files, csv_name, Row)
            /\ row_out' = <<emg_data, imu_data>>
            /\ \E d \in WriteDur :
               /\ since_write' = Age(0, d, WRITE_INTERVAL_MS)
               /\ since_row' = Age(0, d, WRITE_INTERVAL_MS)
               /\ since_listen' = Age(since_listen, d, ActivityCap(timeout))
               /\ since_activity' = Age(since_activity, d, ActivityCap(timeout))
               /\ same_second' \in SecondAfter(d)
       ELSE /\ NoTime
            /\ row_out' = <<>>
            /\ UNCHANGED <<files, since_listen>>
    /\ pc' = "wd"
    /\ calls' = <<>>
    /\ UNCHANGED <<prog, exit_status, stop, connected, timeout, wd_result,
                   stop_seen, err, csv_name, csv_open, stalled, emg_data,
                   imu_data, delivered, lost_exit>>
    /\ NoCycle /\ NoArgs
    /\ UNCHANGED <<configured, registered>>

\* if (watchdog.is_timeout()) throw "Watchdog timeout"; sleep 1 ms.
WatchdogCheck ==
    /\ pc = "wd"
    /\ IF is_timeout(since_activity, timeout)
       THEN /\ Throw("Watchdog timeout")
            /\ UNCHANGED <<since_activity, same_second>>
       ELSE /\ PassLoop(LOOP_SLEEP_MS)
            /\ pc' = "acq"
            /\ row_out' = <<>>
            /\ UNCHANGED <<csv_name, csv_open, err, stalled, emg_data,
                           imu_data, delivered>>
    /\ calls' = <<>>
    /\ UNCHANGED <<prog, exit_status, stop, connected, timeout, wd_result,
                   stop_seen, files, lost_exit>>
    /\ NoCycle /\ NoArgs
    /\ since_listen' = 0
    /\ UNCHANGED <<configured, registered>>

\* (a lost session sent to reconnect() from the normal path)
CloseSink_Reconnect ==
    /\ pc = "close"
    /\ csv_open' = IF csv_open > 0 THEN csv_open - 1 ELSE 0
    /\ csv_name' = 0
    /\ NoLocals
    /\ stalled' = FALSE
    /\ pc' = IF lost_exit /\ prog = "addr" THEN "rc_loop" ELSE "loop"
    /\ calls' = <<>>
    /\ UNCHANGED <<prog, exit_status, stop, connected, timeout, wd_result,
                   stop_seen, err, files, since_activity, same_second,
                   lost_exit>>
    /\ NoCycle /\ NoArgs
    /\ NoDevice

\* csv_file.close(); the end of the try block.
CloseSink ==
    /\ pc = "close"
    /\ csv_open' = IF csv_open > 0 THEN csv_open - 1 ELSE 0
    /\ csv_name' = 0
    /\ NoLocals
    /\ stalled' = FALSE
    /\ pc' = "loop"
    /\ calls' = <<>>
    /\ UNCHANGED <<prog, exit_status, stop, connected, timeout, wd_result,
                   stop_seen, err, files, since_activity, same_second,
                   lost_exit>>
    /\ NoCycle /\ NoArgs
    /\ NoDevice

----------------------------------------------------------------------------
(* Address-taking program: the error handler and reconnect() *)

\* catch: log, sleep 30 s, reconnect(client, address) begins:
\* int reconnect_attempts = 0;
A_Handler ==
    /\ pc = "handler"
    /\ prog = "addr"
    /\ Pass(ERROR_DELAY_ADDR_S * 1000)
    /\ reconnect_attempts' = 0
    /\ connect_calls' = 0
    /\ cycle' = "attempting"
    /\ pc' = "rc_loop"
    /\ err' = "none"
    /\ lost_exit' = FALSE
    /\ calls' = <<>>
    /\ UNCHANGED <<prog, exit_status, stop, connected, timeout, wd_result,
                   stop_seen>>
    /\ NoSink /\ NoFrame /\ NoArgs
    /\ NoDevice

\* (an off-by-one loop bound)
reconnect_cond_OffByOne(n) == n <= MAX_RECONNECT_ATTEMPTS

\* while (reconnect_attempts < MAX_RECONNECT_ATTEMPTS)
reconnect_cond(n) == n < MAX_RECONNECT_ATTEMPTS

\* (reconnect() called outside a try block: its exception ends the process)
RC_Loop_Uncaught ==
    /\ pc = "rc_loop"
    /\ IF reconnect_cond(reconnect_attempts)
       THEN /\ pc' = "rc_try"
            /\ UNCHANGED <<cycle, err, exit_status>>
       ELSE /\ Exit("terminate")
            /\ cycle' = "exhausted"
            /\ err' = "Unable to reconnect"
    /\ UNCHANGED <<prog, stop, connected, timeout, wd_result,
                   stop_seen, reconnect_attempts, connect_calls>>
    /\ NoTime /\ UNCHANGED stalled /\ NoSink
    /\ NoFrame /\ NoArgs /\ calls' = <<>> /\ UNCHANGED lost_exit
    /\ NoDevice

\* The loop condition of reconnect(); when it fails reconnect() throws
\* "Unable to reconnect", which main catches and logs.
RC_Loop ==
    /\ pc = "rc_loop"
    /\ IF reconnect_cond(reconnect_attempts)
       THEN /\ pc' = "rc_try"
            /\ UNCHANGED <<cycle, err>>
       ELSE /\ pc' = "loop"
            /\ cycle' = "exhausted"
            /\ err' = "Unable to reconnect"
    /\ UNCHANGED <<prog, exit_status, stop, connected, timeout, wd_result,
                   stop_seen, reconnect_attempts, connect_calls>>
    /\ NoTime /\ UNCHANGED stalled /\ NoSink
    /\ NoFrame /\ NoArgs /\ calls' = <<>> /\ UNCHANGED lost_exit
    /\ NoDevice

\* (the connected branch without its connect())
RC_Already_NoConnect ==
    /\ pc = "rc_try"
    /\ connected
    /\ connect_calls' = connect_calls
    /\ \E d \in ConnectDur, r \in {"ok", "connect throws", "setMode throws"} :
       /\ Pass(d)
       /\ r # "connect throws"
       /\ calls' = <<"setSleepMode", "setMode">>
       /\ IF r = "ok"
          THEN /\ pc' = "loop"
               /\ cycle' = "connected"
               /\ UNCHANGED <<connected, err>>
          ELSE /\ pc' = "rc_fail"
               /\ connected' \in BOOLEAN
               /\ err' = "device"
               /\ UNCHANGED cycle
    /\ UNCHANGED <<prog, exit_status, stop, timeout, wd_result, stop_seen,
                   reconnect_attempts, lost_exit>>
    /\ NoSink /\ NoFrame /\ NoArgs
    /\ configured' = (err' = "none" /\ setMode(configured))
    /\ UNCHANGED <<registered, since_listen>>

\* if (client.connected()) { connect; setSleepMode; setMode; return; }
RC_Already ==
    /\ pc = "rc_try"
    /\ connected
    /\ connect_calls' = connect_calls + 1
    /\ \E d \in ConnectDur, r \in {"ok", "connect throws", "setMode throws"} :
       /\ Pass(d)
       /\ calls' = IF r = "connect throws" THEN <<"connect">>
                   ELSE <<"connect", "setSleepMode", "setMode">>
       /\ IF r = "ok"
          THEN /\ pc' = "loop"
               /\ cycle' = "connected"
               /\ UNCHANGED <<connected, err>>
          ELSE /\ pc' = "rc_fail"
               /\ connected' \in BOOLEAN
               /\ err' = "device"
               /\ UNCHANGED cycle
    /\ UNCHANGED <<prog, exit_status, stop, timeout, wd_result, stop_seen,
                   reconnect_attempts, lost_exit>>
    /\ NoSink /\ NoFrame /\ NoArgs
    /\ configured' = (err' = "none" /\ setMode(configured))
    /\ UNCHANGED <<registered, since_listen>>

\* (no try block in the loop: an exception leaves reconnect())
RC_Attempt_Uncaught ==
    /\ pc = "rc_try"
    /\ ~connected
    /\ \E d \in ConnectDur,
          r \in {"disconnect throws", "ok", "fail", "connect throws"} :
       IF r = "disconnect throws"
       THEN /\ NoTime /\ UNCHANGED stalled
            /\ calls' = <<"disconnect">>
            /\ err' = "device"
            /\ UNCHANGED <<connected, connect_calls>>
       ELSE /\ Pass(PRE_CONNECT_SLEEP_MS + d)
            /\ calls' = <<"disconnect", "connect">>
            /\ err' = IF r = "connect throws" THEN "device" ELSE err
            /\ connect_calls' = connect_calls + 1
            /\ connected' = (r = "ok")
    /\ pc' = IF err' = "device" THEN "loop" ELSE "rc_fail"
    /\ UNCHANGED <<prog, exit_status, stop, timeout, wd_result, stop_seen,
                   reconnect_attempts, cycle, lost_exit>>
    /\ NoSink /\ NoFrame /\ NoArgs
    /\ configured' = FALSE
    /\ UNCHANGED <<registered, since_listen>>

\* disconnect(); sleep 1 s; connect(address, connection_timeout);
RC_Attempt ==
    /\ pc = "rc_try"
    /\ ~connected
    /\ \E d \in ConnectDur,
          r \in {"disconnect throws", "ok", "fail", "connect throws"} :
       IF r = "disconnect throws"
       THEN /\ NoTime /\ UNCHANGED stalled
            /\ calls' = <<"disconnect">>
            /\ err' = "device"
            /\ UNCHANGED <<connected, connect_calls>>
       ELSE /\ Pass(PRE_CONNECT_SLEEP_MS + d)
            /\ calls' = <<"disconnect", "connect">>
            /\ err' = IF r = "connect throws" THEN "device" ELSE err
            /\ connect_calls' = connect_calls + 1
            /\ connected' = (r = "ok")
    /\ pc' = "rc_fail"
    /\ UNCHANGED <<prog, exit_status, stop, timeout, wd_result, stop_seen,
                   reconnect_attempts, cycle, lost_exit>>
    /\ NoSink /\ NoFrame /\ NoArgs
    /\ configured' = FALSE
    /\ UNCHANGED <<registered, since_listen>>

\* reconnect_attempts++; sleep RECONNECT_DELAY_MS;
RC_Fail ==
    /\ pc = "rc_fail"
    /\ reconnect_attempts' = reconnect_attempts + 1
    /\ Pass(RECONNECT_DELAY_ADDR_MS)
    /\ pc' = "rc_loop"
    /\ err' = "none"
    /\ UNCHANGED <<prog, exit_status, stop, connected, timeout, wd_result,
                   stop_seen, connect_calls, cycle>>
    /\ NoSink
    /\ NoFrame /\ NoArgs /\ calls' = <<>> /\ UNCHANGED lost_exit
    /\ NoDevice

----------------------------------------------------------------------------
(* Address-less program: the connect retry loop and the error handler *)

\* while (!client.connected() && reconnect_attempts < MAX && !stop)
connect_cond(c, n, s) == ~c /\ n < MAX_RECONNECT_ATTEMPTS /\ s = 0

B_RetryLoop ==
    /\ pc = "b_retry"
    /\ prog = "noaddr"
    /\ IF connect_cond(connected, reconnect_attempts, stop)
       THEN /\ pc' = "b_connect"
            /\ UNCHANGED cycle
       ELSE /\ pc' = "check"
            /\ cycle' = IF connected THEN "connected"
                        ELSE IF reconnect_attempts >= MAX_RECONNECT_ATTEMPTS
                             THEN "exhausted" ELSE "interrupted"
    /\ stop_seen' = (stop_seen \/ (~connected /\ stop # 0
                       /\ reconnect_attempts < MAX_RECONNECT_ATTEMPTS))
    /\ UNCHANGED <<prog, exit_status, stop, connected, timeout, wd_result, err,
                   reconnect_attempts, connect_calls>>
    /\ NoTime /\ UNCHANGED stalled /\ NoSink
    /\ NoFrame /\ NoArgs /\ calls' = <<>> /\ UNCHANGED lost_exit
    /\ NoDevice

\* try { connect(); if (connected()) break; } catch { log }
B_Connect ==
    /\ pc = "b_connect"
    /\ connect_calls' = connect_calls + 1
    /\ \E d \in ConnectDur, r \in {"ok", "fail", "throw"} :
       /\ Pass(d)
       /\ connected' = (r = "ok")
       /\ pc' = IF r = "ok" THEN "check" ELSE "b_fail"
       /\ cycle' = IF r = "ok" THEN "connected" ELSE cycle
       /\ err' = IF r = "throw" THEN "device" ELSE err
    /\ calls' = <<"connect">>
    /\ UNCHANGED <<prog, exit_status, stop, timeout, wd_result, stop_seen,
                   reconnect_attempts, lost_exit>>
    /\ NoSink /\ NoFrame /\ NoArgs
    /\ configured' = FALSE
    /\ UNCHANGED <<registered, since_listen>>

\* reconnect_attempts++; sleep RECONNECT_DELAY_MS;
B_Fail ==
    /\ pc = "b_fail"
    /\ reconnect_attempts' = reconnect_attempts + 1
    /\ Pass(RECONNECT_DELAY_NOADDR_MS)
    /\ pc' = "b_retry"
    /\ err' = "none"
    /\ UNCHANGED <<prog, exit_status, stop, connected, timeout, wd_result,
                   stop_seen, connect_calls, cycle>>
    /\ NoSink
    /\ NoFrame /\ NoArgs /\ calls' = <<>> /\ UNCHANGED lost_exit
    /\ NoDevice

\* if (!client.connected()) { log "Failed to connect ... Exiting."; return 1; }
B_NotConnected ==
    /\ pc = "check"
    /\ prog = "noaddr"
    /\ ~connected
    /\ Exit("exit1")
    /\ UNCHANGED <<prog, stop, connected, timeout, wd_result, stop_seen, err>>
    /\ NoTime /\ UNCHANGED stalled /\ NoCycle /\ NoSink
    /\ NoFrame /\ NoArgs /\ calls' = <<>> /\ UNCHANGED lost_exit
    /\ NoDevice

\* catch: log, sleep 5 s, client.disconnect() outside any try block: an
\* exception of disconnect() leaves main and the process is terminated.
B_Handler ==
    /\ pc = "handler"
    /\ prog = "noaddr"
    /\ Pass(ERROR_DELAY_NOADDR_S * 1000)
    /\ \E r \in {"ok", "throw"} :
       IF r = "ok"
       THEN /\ connected' = FALSE
            /\ pc' = "loop"
            /\ err' = "none"
            /\ UNCHANGED exit_status
       ELSE /\ connected' \in {connected, FALSE}
            /\ err' = "device"
            /\ Exit("terminate")
    /\ calls' = <<"disconnect">>
    /\ UNCHANGED <<prog, stop, timeout, wd_result, stop_seen, lost_exit>>
    /\ NoCycle /\ NoSink /\ NoFrame /\ NoArgs
    /\ configured' = FALSE
    /\ UNCHANGED <<registered, since_listen>>

----------------------------------------------------------------------------
(* After the Supervisor loop: the final disconnect *)

\* addr:   try { client.disconnect(); } catch { log }  return 0;
\* noaddr: client.disconnect(); return 0;
FinalDisconnect ==
    /\ pc = "final"
    /\ \E r \in {"ok", "throw"} :
       IF r = "ok"
       THEN /\ connected' = FALSE
            /\ Exit("exit0")
            /\ UNCHANGED err
       ELSE /\ connected' \in {connected, FALSE}
            /\ err' = "device"
            /\ Exit(IF prog = "addr" THEN "exit0" ELSE "terminate")
    /\ calls' = <<"disconnect">>
    /\ UNCHANGED <<prog, stop, timeout, wd_result, stop_seen, lost_exit>>
    /\ NoTime /\ UNCHANGED stalled /\ NoCycle /\ NoSink /\ NoFrame /\ NoArgs
    /\ configured' = FALSE
    /\ UNCHANGED <<registered, since_listen>>

----------------------------------------------------------------------------
(* The programs *)

Next ==
    \/ signal_handler
    \/ SupervisorLoop
    \/ A_Connect
    \/ A_ConnectFailed
    \/ OpenSink
    \/ Configure
    \/ AcqLoop
    \/ Listen
    \/ WriteRow
    \/ WatchdogCheck
    \/ CloseSink
    \/ A_Handler
    \/ RC_Loop
    \/ RC_Already
    \/ RC_Attempt
    \/ RC_Fail
    \/ B_RetryLoop
    \/ B_Connect
    \/ B_Fail
    \/ B_NotConnected
    \/ B_Handler
    \/ FinalDisconnect

Spec == Init /\ [][Next]_vars

----------------------------------------------------------------------------
(* ConnectionWatchdog on its own: constructed with a threshold of 0 to
   MaxTimeout seconds, then update(), is_timeout() and the passing of time
   in any order.  pc tells what happened last to the clock:
   "wd_new" constructed, "wd_updated" update() just returned, "wd_waited"
   time has passed since. *)

TickDur == {1, 1000}

Init_WD ==
    /\ prog = "wd"
    /\ pc = "wd_new"
    /\ exit_status = "running"
    /\ stop = 0
    /\ connected = FALSE
    /\ reconnect_attempts = 0
    /\ timeout \in 0..MaxTimeout
    /\ since_activity = 0
    /\ since_write = 0
    /\ same_second = FALSE
    /\ files = <<>>
    /\ csv_name = 0
    /\ csv_open = 0
    /\ wd_result = "none"
    /\ stop_seen = FALSE
    /\ connect_calls = 0
    /\ cycle = "idle"
    /\ stalled = FALSE
    /\ err = "none"
    /\ emg_data = 0
    /\ imu_data = 0
    /\ mac_address_str = SomeMac
    /\ address = parse_mac_address(SomeMac).bytes
    /\ calls = <<>>
    /\ since_row = 0
    /\ delivered = <<0, 0>>
    /\ row_out = <<>>
    /\ lost_exit = FALSE
    /\ configured = FALSE
    /\ registered = <<0, 0>>
    /\ since_listen = 0

WD_Rest ==
    /\ UNCHANGED <<prog, exit_status, stop, connected, timeout, stop_seen, err,
                   since_write, since_row, same_second, stalled, calls,
                   lost_exit>>
    /\ NoCycle /\ NoSink /\ NoFrame /\ NoArgs /\ NoDevice

WD_update ==
    /\ prog = "wd"
    /\ since_activity' = update
    /\ pc' = "wd_updated"
    /\ wd_result' = "none"
    /\ WD_Rest

WD_is_timeout ==
    /\ prog = "wd"
    /\ wd_result' = IF is_timeout(since_activity, timeout) THEN "yes" ELSE "no"
    /\ UNCHANGED <<pc, since_activity>>
    /\ WD_Rest

WD_Tick ==
    /\ prog = "wd"
    /\ since_activity < ActivityCap(timeout)
    /\ \E d \in TickDur :
       since_activity' = Age(since_activity, d, ActivityCap(timeout))
    /\ pc' = "wd_waited"
    /\ wd_result' = "none"
    /\ WD_Rest

Next_WD ==
    \/ WD_update
    \/ WD_is_timeout
    \/ WD_Tick

SpecWD == Init_WD /\ [][Next_WD]_vars

----------------------------------------------------------------------------
(* The programs when every call and every sleep returns: a step that can be
   taken is taken. *)

SpecFair == Init /\ [][Next]_vars /\ WF_vars(Next)

----------------------------------------------------------------------------
(* The start of the address-taking program: argv[2] is parsed, and main
   returns 1 when parse_mac_address throws. *)

MaxOctets == 7          \* octets in argv[2]

\* The octets tried in one place of an address that is well formed elsewhere.
OctetSamples ==
    {<<"1", "F">>, <<"a">>, <<>>, <<"1", "G">>, <<"G", "1">>,
     <<"1", "F", "F">>, <<"-", "1">>, <<" ", "1">>, <<"0", "x", "1", "F">>,
     <<"F", "F", "F", "F", "F", "F", "F", "F">>}

PlainOctet(j) == <<"0", UpperHex[j + 1]>>

RECURSIVE Join(_)
Join(octets) ==
    IF octets = <<>> THEN <<>>
    ELSE IF Len(octets) = 1 THEN octets[1]
    ELSE octets[1] \o <<":">> \o Join(Tail(octets))

MacInputs ==
    {Join([j \in 1..n |-> IF j = k THEN o ELSE PlainOctet(j)]) :
        n \in (MAC_OCTETS - 1)..MaxOctets, k \in 1..MaxOctets, o \in OctetSamples}

Init_Mac ==
    /\ prog = "addr"
    /\ pc = "args"
    /\ exit_status = "running"
    /\ stop = 0
    /\ connected = FALSE
    /\ reconnect_attempts = 0
    /\ timeout = WATCHDOG_TIMEOUT_S
    /\ since_activity = 0
    /\ since_write = 0
    /\ same_second = FALSE
    /\ files = <<>>
    /\ csv_name = 0
    /\ csv_open = 0
    /\ wd_result = "none"
    /\ stop_seen = FALSE
    /\ connect_calls = 0
    /\ cycle = "idle"
    /\ stalled = FALSE
    /\ err = "none"
    /\ emg_data = 0
    /\ imu_data = 0
    /\ mac_address_str \in MacInputs
    /\ address = <<>>
    /\ calls = <<>>
    /\ since_row = 0
    /\ delivered = <<0, 0>>
    /\ row_out = <<>>
    /\ lost_exit = FALSE
    /\ configured = FALSE
    /\ registered = <<0, 0>>
    /\ since_listen = 0

\* try { address = parse_mac_address(mac_address_str); } catch { log; return 1; }
A_ParseArgs ==
    /\ pc = "args"
    /\ LET r == parse_mac_address(mac_address_str)
       IN  IF r.throws = "none"
           THEN /\ address' = r.bytes
                /\ pc' = "loop"
                /\ UNCHANGED <<exit_status, err>>
           ELSE /\ err' = r.throws
                /\ Exit("exit1")
                /\ UNCHANGED address
    /\ UNCHANGED <<prog, stop, connected, timeout, wd_result, stop_seen, stalled,
                   mac_address_str, calls, lost_exit>>
    /\ NoTime /\ NoCycle /\ NoSink /\ NoFrame
    /\ NoDevice

Next_Mac ==
    \/ A_ParseArgs

SpecMac == Init_Mac /\ [][Next_Mac]_vars

----------------------------------------------------------------------------
(* Claims *)

InCycleLoop == pc \in {"rc_loop", "rc_try", "rc_fail", "b_retry", "b_connect", "b_fail"}

C1_Bounds ==
    /\ reconnect_attempts \in 0..MAX_RECONNECT_ATTEMPTS
    /\ connect_calls \in 0..MAX_RECONNECT_ATTEMPTS
    /\ (pc \in {"rc_try", "b_connect"} => connect_calls < MAX_RECONNECT_ATTEMPTS)
    /\ (cycle = "exhausted" => reconnect_attempts = MAX_RECONNECT_ATTEMPTS)

C1_Steps ==
    \* a cycle begins with the counter at 0
    /\ (~InCycleLoop /\ InCycleLoop' => reconnect_attempts' = 0 /\ connect_calls' = 0)
    \* with the counter at 5 the loop condition ends the cycle in exhaustion
    /\ (/\ pc \in {"rc_loop", "b_retry"}
        /\ reconnect_attempts = MAX_RECONNECT_ATTEMPTS
        /\ pc' # pc
        => cycle' = "exhausted" /\ connect_calls' = connect_calls)

\* C1: in one reconnection cycle (reconnect() of the address-taking program,
\* the connect retry loop of the address-less one) the attempt counter starts
\* at 0 and stays within 0..5, at most 5 connect() calls are made, and with
\* the counter at 5 the cycle ends by reporting exhaustion with no further
\* connect() call.
C1_AtMostFiveAttempts == []C1_Bounds /\ [][C1_Steps]_vars

C1_Witness == cycle = "exhausted" /\ connect_calls = MAX_RECONNECT_ATTEMPTS

InEpisode == pc \in {"config", "acq", "listen", "write", "wd", "close"}

\* C2: at most one std::ofstream is open at any time, and outside the span
\* from the opening of the sink to csv_file.close() (so at every step of the
\* Supervisor: delay, connect, reconnect, final disconnect, exit) none is open,
\* whichever way the Acquisition Loop was left.
C2_SinkClosedOutsideEpisode ==
    /\ csv_open <= 1
    /\ (~InEpisode => csv_open = 0)

C2_Witness ==
    /\ pc = "handler"
    /\ err = "Watchdog timeout"
    /\ csv_open = 0
    /\ Len(files) > 0

\* C3: every CSV file holds exactly one header row, as its first line,
\* followed only by rows of 19 fields.
C3_OneHeaderPerFile ==
    \A i \in 1..Len(files) :
        /\ Len(files[i]) > 0
        /\ files[i][1] = Header
        /\ \A j \in 2..Len(files[i]) :
              files[i][j] # Header /\ Len(files[i][j]) = 19

\* C4: once a loop condition has read the stop flag as set, the process ends
\* with exit status 0 and never with status 1, whatever the connection state
\* was (here: when no Device Session call failed after that).
C4_StopExitsZero ==
    (stop_seen /\ pc = "done" /\ err = "none") => exit_status = "exit0"

C5_State ==
    cycle = "exhausted" =>
        IF prog = "addr"
        THEN pc = "loop" /\ exit_status = "running"
        ELSE \/ pc = "check" /\ exit_status = "running" /\ ~connected
             \/ pc = "done" /\ exit_status = "exit1"

C5_Steps ==
    (cycle = "exhausted" /\ pc' # pc) =>
        IF prog = "addr"
        THEN /\ exit_status' = "running"
             /\ pc' = IF stop = 0 THEN "a_connect" ELSE "final"
        ELSE exit_status' = "exit1"

C6_NoDeviceFailureEndsProcess ==
    exit_status = "terminate" => stop_seen

\* C7: when the final disconnect() throws, the process still ends with a
\* success status.
C7_FinalDisconnectFailureLogged ==
    (pc = "done" /\ stop_seen /\ err = "device") => exit_status = "exit0"

\* C8: when listen() outlasts the watchdog threshold without delivering a
\* sample while the session stays connected, the Acquisition Loop does not go
\* on to another iteration (it throws "Watchdog timeout" instead).
C8_StallRaisesTimeout ==
    (stalled /\ connected) => pc \in {"write", "wd"}

\* C9: is_timeout() returns false when called right after update(), and
\* returns true only when more than the threshold has elapsed since the last
\* update() (or the construction).
C9_WatchdogSound ==
    /\ (pc = "wd_updated" /\ wd_result # "none" => wd_result = "no")
    /\ (wd_result = "yes" => since_activity > timeout * 1000)

C9_Witness ==
    /\ pc = "wd_updated"
    /\ wd_result = "no"
    /\ timeout = 0

\* C10: is_timeout() returns true if and only if the elapsed time since the
\* last activity, in milliseconds, is strictly greater than the threshold.
C10_TimeoutIffElapsedExceeds ==
    wd_result # "none" => (wd_result = "yes" <=> since_activity > timeout * 1000)

C11_Step ==
    \* the timeout leaves the loop as an exception, not by the loop condition
    /\ (pc = "wd" /\ is_timeout(since_activity, timeout) /\ pc' # pc
          => pc' = "handler" /\ err' = "Watchdog timeout")
    \* the handler waits, enters the reconnection path, and the process lives
    /\ (pc = "handler" /\ err = "Watchdog timeout" /\ pc' # pc
          => /\ exit_status' = "running"
             /\ IF prog = "addr"
                THEN pc' = "rc_loop"
                ELSE pc' = "loop" /\ calls' = <<"disconnect">>)

\* C11: a watchdog timeout leaves the Acquisition Loop through the exception
\* path; the handler of the Supervisor then, after its delay, enters the
\* reconnection path (reconnect() in the address-taking program, disconnect()
\* and the connect retry loop in the address-less one) and the process does
\* not end.
C11_WatchdogTimeoutReconnects == [][C11_Step]_vars

\* C12 as stated: in the address-taking program the sink of the next episode
\* is not opened after a loop that ended on connected() = false unless
\* reconnect() was called in between.
C12_LostSessionCallsReconnect ==
    (prog = "addr" /\ pc = "config") => ~lost_exit

InReconnect == pc \in {"rc_loop", "rc_try", "rc_fail"}

C12_State ==
    (prog = "addr" /\ lost_exit) =>
        /\ pc \in {"close", "loop", "a_connect", "check", "config", "handler",
                   "final", "done"}
        \* the sink of the ended episode is closed before anything else
        /\ (pc \notin {"close", "config"} => csv_open = 0)

C12_Steps ==
    \* connected() = false ends the loop, by its condition
    /\ (pc = "acq" /\ ~connected /\ pc' # pc => pc' = "close")
    \* the Supervisor goes on to its own connect()
    /\ (prog = "addr" /\ lost_exit /\ pc = "loop" /\ stop = 0 /\ pc' # pc
          => pc' = "a_connect")
    /\ (prog = "addr" /\ lost_exit /\ pc = "a_connect" /\ ~connected /\ pc' # pc
          => calls' = <<"connect">>)
    \* reconnect() is entered from the catch handler only
    /\ (~InReconnect /\ InReconnect' => pc = "handler")

\* C12 amended: when connected() turns false in the Acquisition Loop of the
\* address-taking program, the loop ends by its condition, the sink is
\* closed, and the Supervisor starts the next episode through the connect()
\* at the top of its loop; reconnect() is called from the catch handler only,
\* that is after an exception.
C12_LostSessionConnectsDirectly == []C12_State /\ [][C12_Steps]_vars

C12_Witness ==
    /\ prog = "addr"
    /\ lost_exit
    /\ pc = "config"

\* No bound of the model stands in the way of what is left to do once the
\* flag is set (one more sink, or one more row).
C13_Slack ==
    /\ Episodes(files) < MaxEpisodes
    /\ \A i \in 1..Len(files) : Len(files[i]) < MaxLines

\* C13: once the stop flag is set the process ends, in both programs and from
\* every reachable state, when every call and every sleep returns.
C13_StopLeadsToExit == (stop # 0 /\ C13_Slack) ~> (pc = "done")

C13_Witness ==
    /\ pc = "done"
    /\ stop # 0
    /\ stop_seen
    /\ prog = "addr"
    /\ reconnect_attempts = MAX_RECONNECT_ATTEMPTS

C14_Lines(fs) ==
    Cardinality(UNION {{<<i, j>> : j \in 1..Len(fs[i])} : i \in 1..Len(fs)})

C14_RowAdded ==
    \E i \in 1..Len(files) :
        /\ Len(files'[i]) > Len(files[i])
        /\ files'[i][Len(files'[i])] = Row

C14_Step ==
    \* no line is rewritten or removed, at most one is added
    /\ Len(files') >= Len(files)
    /\ \A i \in 1..Len(files) :
          /\ Len(files'[i]) >= Len(files[i])
          /\ SubSeq(files'[i], 1, Len(files[i])) = files[i]
    /\ C14_Lines(files') <= C14_Lines(files) + 1
    \* a row is added by the write of the loop, 10 ms or more after the clock
    \* reading of the row before it (of the loop entry, for the first)
    /\ (C14_RowAdded => pc = "write" /\ since_row >= WRITE_INTERVAL_MS)

\* C14: in an episode the clock readings of two consecutive rows are 10 ms or
\* more apart and the first row's is 10 ms or more after the loop entry; a
\* loop iteration adds at most one row, and no line of a file is rewritten.
C14_RowsTenMsApart == [][C14_Step]_vars

C14_Witness ==
    /\ pc = "wd"
    /\ csv_name # 0
    /\ Len(files[csv_name]) = 3
    /\ files[csv_name][2] = Row
    /\ files[csv_name][3] = Row

\* C15: a row written once both callbacks have been called in the episode
\* holds the sample last handed to the EMG callback and the sample last
\* handed to the IMU callback before the write.
C15_RowHoldsLatestSamples ==
    (pc = "wd" /\ row_out # <<>> /\ delivered[1] > 0 /\ delivered[2] > 0)
        => row_out = delivered

C15_Witness ==
    /\ pc = "wd"
    /\ row_out = <<MaxSample, 1>>
    /\ delivered = <<MaxSample, 1>>
    /\ Len(files[csv_name]) = 3

C16_Steps ==
    \* the exception is caught in the loop: nothing is counted yet, the
    \* process lives, control is at the counting
    /\ (pc \in {"rc_try", "b_connect"} /\ err' = "device"
          => /\ pc' \in {"rc_fail", "b_fail"}
             /\ reconnect_attempts' = reconnect_attempts
             /\ exit_status' = "running")
    \* it counts as one attempt, and the backoff wait follows
    /\ (pc \in {"rc_fail", "b_fail"} /\ pc' # pc
          => /\ reconnect_attempts' = reconnect_attempts + 1
             /\ pc' = (IF pc = "rc_fail" THEN "rc_loop" ELSE "b_retry")
             /\ since_activity' =
                   Age(since_activity,
                       IF pc = "rc_fail" THEN RECONNECT_DELAY_ADDR_MS
                       ELSE RECONNECT_DELAY_NOADDR_MS,
                       ActivityCap(timeout)))
    \* below the maximum the loop goes on
    /\ (pc = "rc_loop" /\ ~connected
          /\ reconnect_attempts < MAX_RECONNECT_ATTEMPTS /\ pc' # pc
          => pc' = "rc_try")
    /\ (pc = "b_retry" /\ ~connected /\ stop = 0
          /\ reconnect_attempts < MAX_RECONNECT_ATTEMPTS /\ pc' # pc
          => pc' = "b_connect")

\* C16: an exception of connect() (or of the disconnect() before it) in a
\* retry loop is caught there, counts as one failed attempt, is followed by
\* the backoff wait, and does not end the loop below the maximum.
C16_ExceptionIsOneFailedAttempt == [][C16_Steps]_vars

C16_Witness ==
    /\ pc = "rc_fail"
    /\ err = "device"
    /\ calls = <<"disconnect">>
    /\ reconnect_attempts = MAX_RECONNECT_ATTEMPTS - 1

RECURSIVE C17_Fields(_)
C17_Fields(s) ==
    LET k == Delimiter(s, 1)
    IN  IF k > Len(s) THEN <<s>>
        ELSE <<SubSeq(s, 1, k - 1)>> \o C17_Fields(SubSeq(s, k + 1, Len(s)))

\* One to two hexadecimal digits: an octet, whose value fits a byte.
C17_IsOctet(f) ==
    /\ Len(f) \in 1..2
    /\ \A j \in 1..Len(f) : IsHexDigit(f[j])

C17_WellFormed(s) ==
    /\ Len(C17_Fields(s)) = MAC_OCTETS
    /\ \A j \in 1..MAC_OCTETS : C17_IsOctet(C17_Fields(s)[j])

\* C17: parse_mac_address returns the six bytes of a string of six
\* colon-separated hexadecimal octets, and throws on every other string, so
\* that main returns 1.
C17_ParsesExactlyMacs ==
    pc # "args" =>
        IF C17_WellFormed(mac_address_str)
        THEN /\ exit_status = "running"
             /\ address = [j \in 1..MAC_OCTETS |->
                              HexNumber(C17_Fields(mac_address_str)[j], 0)]
        ELSE exit_status = "exit1"

\* C18: control does not reach the counting of a failed attempt
\* (reconnect_attempts++, "Reconnection failed") after a connect() of
\* reconnect() that left the session connected, and reconnect() does not
\* report exhaustion while the session is connected.
C18_CounterCountsFailures ==
    /\ (pc = "rc_fail" /\ calls = <<"disconnect", "connect">> => ~connected)
    /\ (prog = "addr" /\ cycle = "exhausted" => ~connected)

C19_AlreadyStep == pc = "rc_try" /\ connected /\ pc' # pc

\* C19 as stated: an attempt of reconnect() that finds the session connected
\* calls neither connect() nor disconnect().
C19_ConnectedBranchNoConnect ==
    [][C19_AlreadyStep =>
         /\ connect_calls' = connect_calls
         /\ \A j \in 1..Len(calls') : calls'[j] \notin {"connect", "disconnect"}]_vars

C19_Steps ==
    C19_AlreadyStep =>
        /\ connect_calls' = connect_calls + 1
        /\ calls' \in {<<"connect">>, <<"connect", "setSleepMode", "setMode">>}
        /\ IF err' = "none"
           THEN /\ calls' = <<"connect", "setSleepMode", "setMode">>
                /\ connected'
                /\ cycle' = "connected"
                /\ pc' = "loop"
                /\ reconnect_attempts' = reconnect_attempts
           ELSE pc' = "rc_fail"

\* C19 amended: an attempt of reconnect() that finds the session connected
\* calls no disconnect() but calls connect() once more, then setSleepMode and
\* setMode, and returns; when one of the three throws the attempt is counted
\* as failed.
C19_ConnectedBranchConnectsAgain == [][C19_Steps]_vars

C19_Witness ==
    /\ pc = "loop"
    /\ cycle = "connected"
    /\ calls = <<"connect", "setSleepMode", "setMode">>

\* C20: with the stop flag set no loop begins another iteration: not the
\* Supervisor loop, not the Acquisition Loop, not a connect retry loop.
C20_NoIterationAfterStop ==
    [][stop # 0 =>
         /\ (pc = "loop" /\ pc' # pc => pc' = "final")
         /\ (pc = "acq" /\ pc' # pc => pc' = "close")
         /\ (pc = "b_retry" /\ pc' # pc => pc' = "check")
         /\ (pc = "rc_loop" /\ pc' # pc => pc' # "rc_try")]_vars

\* C21: listen() is called only on a connection to which setSleepMode and
\* then setMode were applied after the connect() that made it, whichever
\* connect() that was (the Supervisor's, one of reconnect(), one of the
\* connect retry loop).
C21_ConfiguredBeforeListen ==
    /\ (pc = "listen" => connected /\ configured)
    /\ (pc = "acq" /\ calls # <<>>
          => SubSeq(calls, 1, 2) = <<"setSleepMode", "setMode">>)

C21_Witness ==
    /\ pc = "listen"
    /\ prog = "addr"
    /\ Episodes(files) = 2
    /\ configured

C22_State ==
    pc \in {"acq", "listen", "write", "wd"}
        => registered = <<Episodes(files), Episodes(files)>>

C22_Step ==
    (pc' # pc /\ calls' = <<"listen">>)
        => /\ pc = "listen"
           /\ registered = <<Episodes(files), Episodes(files)>>

\* C22: listen() is called in the Acquisition Loop only, and there both
\* callbacks refer to the locals of the running episode, so that listen()
\* never has a callback write to the locals of an ended episode.
C22_CallbacksOfThisEpisode == []C22_State /\ [][C22_Step]_vars

C22_Witness ==
    /\ pc = "write"
    /\ Episodes(files) = 2
    /\ registered = <<2, 2>>
    /\ delivered = <<MaxSample, MaxSample>>
    /\ emg_data = MaxSample
    /\ imu_data = MaxSample

C23_State ==
    (pc = "wd" /\ is_timeout(since_activity, timeout))
        => is_timeout(since_listen, timeout)

C23_Step ==
    (pc = "listen" /\ pc' = "write") => ~is_timeout(since_activity', timeout)

\* C23: is_timeout() is read after the update() of the same iteration, so
\* "Watchdog timeout" is thrown only when more than the threshold has passed
\* within the iteration, never on account of the time spent outside the
\* Acquisition Loop.
C23_NoSpuriousTimeout == []C23_State /\ [][C23_Step]_vars

C23_Witness ==
    /\ pc = "listen"
    /\ Episodes(files) = 2
    /\ is_timeout(since_activity, timeout)

====
